---------------------------- MODULE Spec2Model ----------------------------
(***************************************************************************)
(* A model of lightwood's ensemble selector (ensemble/best_of.py) and of   *)
(* its time-series numeric encoder (encoders/numeric/ts_numeric.py).       *)
(*                                                                         *)
(* Specifications sharing the module: Spec drives a BestOf instance        *)
(* (construction, then prediction calls); SpecEnc drives a                 *)
(* TsNumericEncoder instance through any sequence of prepare, encode and   *)
(* decode calls; SpecCodec drives one through encode and decode calls on   *)
(* whole series, with group information; SpecDelta applies the time-series *)
(* analyzer's get_delta (data/timeseries_analyzer.py) to a frame and       *)
(* SpecResiduals its get_ts_residuals to a target; SpecContext builds a    *)
(* BestOf over validation frames and analyses and asks for its context.    *)
(***************************************************************************)
EXTENDS Integers, Sequences, FiniteSets, TLC

VARIABLES
    mixers,                \* BestOf.mixers: the constructor's list of mixers
    phase,                 \* "new" | "ready" | "init_failed"
    avg_list,              \* __init__'s avg_score of each mixer, as np.mean gave it
    score_list,            \* __init__'s score_list, one float per evaluated mixer
    init_invoked,          \* mixers invoked by __init__, in order (0-based)
    init_error,            \* the exception that ended __init__, or NoError
    indexes_by_accuracy,   \* BestOf.indexes_by_accuracy (0-based mixer indices)
    last_call,             \* what the last __call__ did and gave back
    init_args,             \* __init__'s data, dtype_dict[target] and ts_analysis
    context,               \* BestOf.context
    last_get_context,      \* the get_context calls made and what the last returned
    enc,                   \* the TsNumericEncoder instance's attributes
    last_op,               \* the last encoder method called and how it ended
    prepare_called,        \* prepare has been called on the instance
    prepare_succeeded,     \* a prepare call on the instance has completed
    ts_input,              \* the frame and settings the analyzer is given
    ts_output              \* what the analyzer's function returned

bvars == <<mixers, phase, avg_list, score_list, init_invoked, init_error,
           indexes_by_accuracy, last_call, init_args, context,
           last_get_context>>

evars == <<enc, last_op, prepare_called, prepare_succeeded>>

avars == <<ts_input, ts_output>>

vars == <<bvars, evars, avars>>

(***************************************************************************)
(* Bounds.                                                                 *)
(***************************************************************************)
MaxMixers == 3

MaxPriming == 2

\* rows in one encode call
MaxRows == 2

\* rows of the frame get_delta is given
MaxFrameRows == 3

(***************************************************************************)
(* float64 scores.  A value is NaN, or the number big * 2^63 + v / 10      *)
(* where |v / 10| is far below 2^63, so the order is lexicographic.        *)
(***************************************************************************)
NaN == [nan |-> TRUE, big |-> 0, v |-> 0]

Num(tenths) == [nan |-> FALSE, big |-> 0, v |-> tenths]

\* -pow(2, 63)
NEG_2_63 == [nan |-> FALSE, big |-> -1, v |-> 0]

\* a < b on two floats (false whenever one of them is NaN)
FloatLess(a, b) ==
    /\ ~a.nan
    /\ ~b.nan
    /\ \/ a.big < b.big
       \/ a.big = b.big /\ a.v < b.v

\* The averages np.mean(list(score_dict.values())) can give: 0.5, 0.9 and
\* NaN (the mean of no score at all, or of scores with a NaN among them).
AvgScores == {Num(5), Num(9), NaN}

\* lightwood.helpers.numeric.is_nan_numeric on a float
is_nan_numeric(value) == value.nan

(***************************************************************************)
(* Mixers: the attributes BestOf reads, type(mixer).__name__ and stable.   *)
(* Neural and NHitsMixer set stable = True in their constructors; the      *)
(* third kind stands for a mixer class that leaves stable False.           *)
(***************************************************************************)
Mixer ==
    {[type |-> "Neural", stable |-> TRUE],
     [type |-> "NHitsMixer", stable |-> TRUE],
     [type |-> "UnstableMixer", stable |-> FALSE]}

MixerLists == UNION {[1..n -> Mixer] : n \in 0..MaxMixers}

\* What invoking one mixer does: it returns its predictions or raises.
Behaviours == {"ok", "raise"}

NoError == [kind |-> "none", by |-> -1]

MixerError(i) == [kind |-> "MixerError", by |-> i]

IndexError == [kind |-> "IndexError", by |-> -1]

\* The predictions mixer i returns, named after the mixer that made them.
Prediction(i) == [of |-> i]

(***************************************************************************)
(* BestOf.__init__                                                         *)
(***************************************************************************)
\* Variant of ScoreOf without the NaN replacement of lines 39-41.
ScoreOf_NaNKept(avg_score) == avg_score

\* avg_score as appended to score_list (lines 36-43)
ScoreOf(avg_score) ==
    IF is_nan_numeric(avg_score) THEN NEG_2_63 ELSE avg_score

\* Variant of EvaluateMixers with a failover: a mixer that raises is
\* skipped and the loop goes on.
RECURSIVE EvaluateMixers_Failover(_, _, _, _, _)
EvaluateMixers_Failover(evals, i, avgs, scores, invoked) ==
    IF i > Len(evals)
    THEN [avg_list |-> avgs, score_list |-> scores, invoked |-> invoked,
          error |-> NoError]
    ELSE IF evals[i].raises
         THEN EvaluateMixers_Failover(evals, i + 1, avgs, scores,
                                      Append(invoked, i - 1))
         ELSE EvaluateMixers_Failover(evals, i + 1,
                                      Append(avgs, evals[i].avg),
                                      Append(scores, ScoreOf(evals[i].avg)),
                                      Append(invoked, i - 1))

\* The loop of lines 27-43 from mixer i (1-based) on.  evals[i] is what
\* evaluating mixer i gives: [raises |-> TRUE] or [raises |-> FALSE, avg |-> s].
RECURSIVE EvaluateMixers(_, _, _, _, _)
EvaluateMixers(evals, i, avgs, scores, invoked) ==
    IF i > Len(evals)
    THEN [avg_list |-> avgs, score_list |-> scores, invoked |-> invoked,
          error |-> NoError]
    ELSE IF evals[i].raises
         THEN [avg_list   |-> avgs,
               score_list |-> scores,
               invoked    |-> Append(invoked, i - 1),
               error      |-> MixerError(i - 1)]
         ELSE EvaluateMixers(evals, i + 1,
                             Append(avgs, evals[i].avg),
                             Append(scores, ScoreOf(evals[i].avg)),
                             Append(invoked, i - 1))

\* np.array(score_list).argsort(): numpy's default kind is not stable, so
\* every permutation (0-based) that puts the scores in ascending order is a
\* possible result.
argsort(scores) ==
    {p \in [1..Len(scores) -> 0..(Len(scores) - 1)] :
        /\ \A i, j \in 1..Len(scores) : i # j => p[i] # p[j]
        /\ \A i, j \in 1..Len(scores) :
              i < j => ~FloatLess(scores[p[j] + 1], scores[p[i] + 1])}

\* Variant of reversed that leaves the ascending order as it is.
reversed_Forgotten(seq) == seq

\* list(reversed(seq))
reversed(seq) == [i \in 1..Len(seq) |-> seq[Len(seq) + 1 - i]]

Evals == {[raises |-> TRUE]} \cup {[raises |-> FALSE, avg |-> s] : s \in AvgScores}

(***************************************************************************)
(* BestOf.store_context.  The validation data is the sequence of its rows, *)
(* each with a value in the columns "a" and "b"; a row of the context      *)
(* carries the index label idx of the row of the data it was taken from.   *)
(* ts_analysis holds the grouping columns, tss.group_by, and the group     *)
(* combinations, tuples with one value per grouping column; the sentinel   *)
(* '__default' is kept as the tuple DefaultGroup.                          *)
(***************************************************************************)
\* rows of the validation data
MaxDataRows == 2

\* group combinations of ts_analysis, '__default' aside
MaxGroups == 2

ColumnValues == {"x", "y"}

DataRows == [a : ColumnValues, b : ColumnValues]

DataFrames == UNION {[1..n -> DataRows] : n \in 0..MaxDataRows}

DefaultGroup == <<"__default">>

GroupBys == {<<"a">>, <<"a", "b">>}

GroupTuples(group_by) == [1..Len(group_by) -> ColumnValues]

\* lists of distinct group combinations
GroupLists(group_by) ==
    UNION {{gs \in [1..n -> GroupTuples(group_by)] :
               \A i, j \in 1..n : i # j => gs[i] # gs[j]} : n \in 0..MaxGroups}

NoTsAnalysis == [given |-> FALSE, group_by |-> <<>>, group_combinations |-> <<>>]

TsAnalyses ==
    UNION {{[given |-> TRUE, group_by |-> group_by,
             group_combinations |-> <<DefaultGroup>> \o gs] :
               gs \in GroupLists(group_by)} : group_by \in GroupBys}

\* __init__'s arguments that store_context reads: dtype_dict[target],
\* data.data_frame and ts_analysis (None by default)
PlainArgs ==
    [dtype |-> "float", data |-> <<[a |-> "x", b |-> "y"]>>,
     ts_analysis |-> NoTsAnalysis]

ContextArgs ==
    {[dtype |-> dtype, data |-> data, ts_analysis |-> ts_analysis] :
        dtype \in {"tsarray", "float"}, data \in DataFrames,
        ts_analysis \in TsAnalyses \cup {NoTsAnalysis}}

TypeError == [kind |-> "TypeError", by |-> -1]

\* self.context before __init__ assigns it
NoContext == [set |-> FALSE, rows |-> <<>>, flags |-> <<>>]

\* a frame of these rows, and no column besides the data's
Frame(rows) == [set |-> TRUE, rows |-> rows, flags |-> <<>>]

\* [g for g in ts_analysis['group_combinations'] if g != '__default']
\* (line 71)
RECURSIVE Groups(_, _)
Groups(group_combinations, k) ==
    IF k > Len(group_combinations)
    THEN <<>>
    ELSE (IF group_combinations[k] # DefaultGroup
          THEN <<group_combinations[k]>>
          ELSE <<>>) \o Groups(group_combinations, k + 1)

SeqMin(a, b) == IF a < b THEN a ELSE b

\* {col: group for col, group in zip(group_by, group)} (line 73), as the
\* sequence of its items; group_by names distinct columns
ColMap(group_by, group) ==
    [k \in 1..SeqMin(Len(group_by), Len(group)) |-> <<group_by[k], group[k]>>]

\* filtered[filtered[col] == group] with filtered = data (lines 75-76): the
\* positions of the rows kept
Filtered(data, col, group) == {r \in 1..Len(data) : data[r][col] = group}

\* filtered.iloc[-1] (line 77), as the row appended to the context
LastRow(data, filtered) ==
    LET r == CHOOSE r \in filtered : \A q \in filtered : q <= r
    IN  [idx |-> r, a |-> data[r].a, b |-> data[r].b]

\* The loop of lines 74-77 over the items of col_map, from item k on.
RECURSIVE AppendLastRows(_, _, _, _)
AppendLastRows(data, col_map, k, rows) ==
    IF k > Len(col_map)
    THEN [error |-> NoError, rows |-> rows]
    ELSE LET filtered == Filtered(data, col_map[k][1], col_map[k][2]) IN
         IF filtered = {}
         THEN \* iloc[-1] of a frame without rows
              [error |-> IndexError, rows |-> rows]
         ELSE AppendLastRows(data, col_map, k + 1,
                             Append(rows, LastRow(data, filtered)))

\* The loop of lines 72-77 over groups, from group g on.
RECURSIVE StoreGroups(_, _, _, _, _)
StoreGroups(data, group_by, groups, g, rows) ==
    IF g > Len(groups)
    THEN [error |-> NoError, rows |-> rows]
    ELSE LET r == AppendLastRows(data, ColMap(group_by, groups[g]), 1, rows) IN
         IF r.error # NoError
         THEN r
         ELSE StoreGroups(data, group_by, groups, g + 1, r.rows)

\* store_context(data.data_frame, ts_analysis) (lines 68-80): the context
\* it assigns, or the exception it raises
StoreContext(args) ==
    IF args.dtype = "tsarray"
    THEN IF ~args.ts_analysis.given
         THEN \* ts_analysis['group_combinations'] on None (line 71)
              [error |-> TypeError, context |-> NoContext]
         ELSE LET r == StoreGroups(args.data, args.ts_analysis.group_by,
                                   Groups(args.ts_analysis.group_combinations, 1),
                                   1, <<>>)
              IN  IF r.error # NoError
                  THEN [error |-> r.error, context |-> NoContext]
                  ELSE [error |-> NoError, context |-> Frame(r.rows)]
    ELSE [error |-> NoError, context |-> Frame(<<>>)]

\* Lines 26-47: the evaluation loop, store_context (line 45), the ranking
\* (line 46) and the read of the best mixer (line 47).
BestOf__init__ ==
    /\ phase = "new"
    /\ \E evals \in [1..Len(mixers) -> Evals] :
          LET r == EvaluateMixers(evals, 1, <<>>, <<>>, <<>>)
              c == StoreContext(init_args)
          IN
          /\ avg_list' = r.avg_list
          /\ score_list' = r.score_list
          /\ init_invoked' = r.invoked
          /\ IF r.error # NoError
             THEN /\ init_error' = r.error
                  /\ phase' = "init_failed"
                  /\ indexes_by_accuracy' = <<>>
                  /\ context' = context
             ELSE IF c.error # NoError
             THEN /\ init_error' = c.error
                  /\ phase' = "init_failed"
                  /\ indexes_by_accuracy' = <<>>
                  /\ context' = context
             ELSE /\ context' = c.context
                  /\ \E order \in argsort(r.score_list) :
                        /\ indexes_by_accuracy' = reversed(order)
                        \* line 47: self.indexes_by_accuracy[0]
                        /\ IF Len(order) = 0
                           THEN init_error' = IndexError /\ phase' = "init_failed"
                           ELSE init_error' = NoError /\ phase' = "ready"
    /\ UNCHANGED <<mixers, last_call, init_args, last_get_context>>
    /\ UNCHANGED evars
    /\ UNCHANGED avars

(***************************************************************************)
(* BestOf.__call__                                                         *)
(***************************************************************************)
\* What a call did: the mixers it invoked, in order, those of them that
\* raised, and what the caller got: a value ("return": result, or columns in
\* "all mixers" mode), None ("return_none") or an exception ("raise": error).
NoResult == [of |-> -1]

NoCall == [mode |-> "none", invoked |-> <<>>, raised |-> <<>>,
           outcome |-> "none", result |-> NoResult, error |-> NoError,
           columns |-> <<>>]

\* The invocations of a call so far
NoInvocation == [invoked |-> <<>>, raised |-> <<>>]

\* mixer(ds, args=args) on mixer mi (0-based), which does behav[mi + 1]
Invoke(log, mi, behav) ==
    [invoked |-> Append(log.invoked, mi),
     raised  |-> IF behav[mi + 1] = "raise"
                 THEN Append(log.raised, mi)
                 ELSE log.raised]

\* The call ends: with a value, with None or with an exception
Ends(mode, log, outcome, result, error, columns) ==
    [mode |-> mode, invoked |-> log.invoked, raised |-> log.raised,
     outcome |-> outcome, result |-> result, error |-> error,
     columns |-> columns]

\* Variant of RankedMixer that walks self.mixers in list order.
RankedMixer_ListOrder(ranking, pos) == pos - 1

\* The mixer tried at position pos of the ranking (lines 57-58)
RankedMixer(ranking, pos) == ranking[pos]

\* Variant of Propagates that swallows every mixer's exception.
Propagates_Never(mixer) == FALSE

\* except-branch of lines 61-66: does the exception of this mixer propagate
Propagates(mixer) == mixer.stable

\* Lines 57-66 from position pos on.
RECURSIVE DefaultDispatch(_, _, _, _, _)
DefaultDispatch(ms, ranking, behav, pos, log) ==
    IF pos > Len(ranking)
    THEN \* the loop ends and the method falls off its end: None
         Ends("default", log, "return_none", NoResult, NoError, <<>>)
    ELSE LET mi   == RankedMixer(ranking, pos)
             log2 == Invoke(log, mi, behav)
         IN  IF behav[mi + 1] = "ok"
             THEN Ends("default", log2, "return", Prediction(mi), NoError, <<>>)
             ELSE IF Propagates(ms[mi + 1])
                  THEN Ends("default", log2, "raise", NoResult,
                            MixerError(mi), <<>>)
                  ELSE DefaultDispatch(ms, ranking, behav, pos + 1, log2)

\* f'__mdb_mixer_{type(mixer).__name__}'
ColumnName(mixer) == <<"__mdb_mixer_", mixer.type>>

\* predictions[key] = value on a dict kept as a sequence of <<key, value>>
\* pairs in insertion order: an existing key keeps its place.
DictSet(d, key, value) ==
    IF \E k \in 1..Len(d) : d[k][1] = key
    THEN [k \in 1..Len(d) |-> IF d[k][1] = key THEN <<key, value>> ELSE d[k]]
    ELSE Append(d, <<key, value>>)

\* Variant of AllDispatch with the failover of the default mode: an
\* unstable mixer's exception is swallowed and the loop goes on.
RECURSIVE AllDispatch_Failover(_, _, _, _, _)
AllDispatch_Failover(ms, behav, i, log, predictions) ==
    IF i > Len(ms)
    THEN Ends("all", log, "return", NoResult, NoError, predictions)
    ELSE LET log2 == Invoke(log, i - 1, behav) IN
         IF behav[i] = "ok"
         THEN AllDispatch_Failover(ms, behav, i + 1, log2,
                                   DictSet(predictions, ColumnName(ms[i]),
                                           Prediction(i - 1)))
         ELSE IF ms[i].stable
              THEN Ends("all", log2, "raise", NoResult, MixerError(i - 1), <<>>)
              ELSE AllDispatch_Failover(ms, behav, i + 1, log2, predictions)

\* Lines 52-55 from mixer i (1-based) on.
RECURSIVE AllDispatch(_, _, _, _, _)
AllDispatch(ms, behav, i, log, predictions) ==
    IF i > Len(ms)
    THEN Ends("all", log, "return", NoResult, NoError, predictions)
    ELSE LET log2 == Invoke(log, i - 1, behav) IN
         IF behav[i] = "ok"
         THEN AllDispatch(ms, behav, i + 1, log2,
                          DictSet(predictions, ColumnName(ms[i]),
                                  Prediction(i - 1)))
         ELSE \* no try/except here: the exception leaves __call__
              Ends("all", log2, "raise", NoResult, MixerError(i - 1), <<>>)

BestOfCall(ms, ranking, all_mixers, behav) ==
    IF all_mixers
    THEN AllDispatch(ms, behav, 1, NoInvocation, <<>>)
    ELSE DefaultDispatch(ms, ranking, behav, 1, NoInvocation)

BestOf__call__ ==
    /\ phase = "ready"
    /\ \E all_mixers \in BOOLEAN, behav \in [1..Len(mixers) -> Behaviours] :
          last_call' = BestOfCall(mixers, indexes_by_accuracy, all_mixers, behav)
    /\ UNCHANGED <<mixers, phase, avg_list, score_list, init_invoked,
                   init_error, indexes_by_accuracy>>
    /\ UNCHANGED <<init_args, context, last_get_context>>
    /\ UNCHANGED evars
    /\ UNCHANGED avars

(***************************************************************************)
(* BestOf.get_context                                                      *)
(***************************************************************************)
\* get_context calls made on one instance
MaxGetContext == 2

NoGetContext == [calls |-> 0, returned |-> NoContext]

\* Variant of Stamp that leaves the frame as it is.
Stamp_Nothing(frame) == frame

\* self.context['__mdb_make_predictions'] = False and
\* self.context['__lw_preprocessed'] = True (lines 84-85): each column is
\* set, to one value in every row; the columns are kept as a dict
Stamp(frame) ==
    [frame EXCEPT !.flags =
        DictSet(DictSet(@, "__mdb_make_predictions", FALSE),
                "__lw_preprocessed", TRUE)]

\* Lines 83-88: the frame returned is self.context itself
GetContext ==
    /\ phase = "ready"
    /\ last_get_context.calls < MaxGetContext
    /\ context' = IF init_args.dtype = "tsarray" THEN Stamp(context) ELSE context
    /\ last_get_context' = [calls |-> last_get_context.calls + 1,
                            returned |-> context']
    /\ UNCHANGED <<mixers, phase, avg_list, score_list, init_invoked,
                   init_error, indexes_by_accuracy, last_call, init_args>>
    /\ UNCHANGED evars
    /\ UNCHANGED avars

(***************************************************************************)
(* TsNumericEncoder: values.  A finite number is kept in halves: h stands  *)
(* for h / 2, so 3 is 1.5 and -2 is -1.0.                                  *)
(***************************************************************************)
Number(h) == [k |-> "num", h |-> h]

NaNValue == [k |-> "nan", h |-> 0]

InfValue == [k |-> "inf", h |-> 0]

NoneValue == [k |-> "none", h |-> 0]

\* a string with a decimal comma, such as "1,5" for h = 3
CommaString(h) == [k |-> "comma", h |-> h]

\* a string that is no number, such as "abc"
BadString == [k |-> "bad", h |-> 0]

\* the values SpecEnc primes with (SpecCodec primes with zeros too)
PrimingValues ==
    {Number(-2), Number(3), NaNValue, InfValue, NoneValue, CommaString(3),
     BadString}

PrimingData == UNION {[1..n -> PrimingValues] : n \in 0..MaxPriming}

\* float(number) does not raise (line 32)
FloatParses(x) == x.k \in {"num", "nan", "inf"}

\* float(str(x).replace(',', '.')) does not raise (line 45)
CommaFloatParses(x) == x.k \in {"num", "nan", "inf", "comma"}

\* int(number) != number on a finite float
NotIntegral(x) == x.h % 2 # 0

Abs(n) == IF n < 0 THEN -n ELSE n

RECURSIVE GCD(_, _)
GCD(a, b) == IF b = 0 THEN a ELSE GCD(b, a % b)

\* Means: None, NaN, or the fraction n / d in lowest terms.
NoMean == [k |-> "none", n |-> 0, d |-> 1]

NaNMean == [k |-> "nan", n |-> 0, d |-> 1]

Fraction(n, d) == [k |-> "rat", n |-> n \div GCD(n, d), d |-> d \div GCD(n, d)]

ErrNone == "none"
ErrPrepareOnce == "You can only call prepare once for a given encoder."
ErrNaN == "Lightwood does not support working with NaN values !"
ErrPrepareFirst == "You need to call prepare before calling encode or decode."
ErrOverflow == "OverflowError"
ErrValue == "ValueError"

(***************************************************************************)
(* TsNumericEncoder.prepare                                                *)
(***************************************************************************)
\* Lines 29-42 from value i on: the inferred value_type, or the exception
\* that leaves the loop.
RECURSIVE InferType(_, _, _)
InferType(priming_data, i, value_type) ==
    IF i > Len(priming_data)
    THEN [value_type |-> value_type, error |-> ErrNone]
    ELSE LET number == priming_data[i] IN
         IF ~FloatParses(number)
         THEN InferType(priming_data, i + 1, value_type)
         ELSE IF number.k = "nan"
              THEN [value_type |-> value_type, error |-> ErrNaN]
              ELSE IF number.k = "inf"
                   THEN \* int(number) on an infinite float
                        [value_type |-> value_type, error |-> ErrOverflow]
                   ELSE InferType(priming_data, i + 1,
                                  IF NotIntegral(number)
                                  THEN "float" ELSE value_type)

RECURSIVE SumAbs(_, _)
SumAbs(priming_data, i) ==
    IF i > Len(priming_data)
    THEN 0
    ELSE (IF priming_data[i].k = "none" THEN 0 ELSE Abs(priming_data[i].h))
         + SumAbs(priming_data, i + 1)

\* np.mean(np.abs(non_null_priming_data)) (lines 45-46); the mean of no
\* value at all is NaN.
AbsMean(priming_data) ==
    LET count == Cardinality({i \in 1..Len(priming_data) :
                                 priming_data[i].k # "none"})
    IN  IF count = 0
        THEN NaNMean
        ELSE Fraction(SumAbs(priming_data, 1), 2 * count)

\* Variant of AlreadyPrepared without the check of lines 26-27.
AlreadyPrepared_Unchecked(e) == FALSE

\* if self._prepared (line 26)
AlreadyPrepared(e) == e._prepared

\* prepare(priming_data) on an encoder with attributes e: the attributes
\* afterwards and the exception raised, if any.
PrepareResult(e, priming_data) ==
    IF AlreadyPrepared(e)
    THEN [enc |-> e, error |-> ErrPrepareOnce]
    ELSE LET t == InferType(priming_data, 1, "int") IN
         IF t.error # ErrNone
         THEN [enc |-> e, error |-> t.error]
         ELSE LET typed == [e EXCEPT !._type = IF e._type = "None"
                                               THEN t.value_type
                                               ELSE e._type]
              IN  IF \E i \in 1..Len(priming_data) :
                        /\ priming_data[i].k # "none"
                        /\ ~CommaFloatParses(priming_data[i])
                  THEN \* line 45 raises after line 44 has set _type
                       [enc |-> typed, error |-> ErrValue]
                  ELSE [enc |-> [typed EXCEPT
                                    !._abs_mean = AbsMean(priming_data),
                                    !._prepared = TRUE],
                        error |-> ErrNone]

(***************************************************************************)
(* Floats.  A float is NaN, an infinity (n is its sign), the fraction      *)
(* n / d in lowest terms, the natural logarithm of a fraction ("log"), e   *)
(* raised to a fraction ("exp") or its opposite ("negexp"); "big" is the   *)
(* Python integer n * 10^63 and "none" is None.  Arithmetic is exact: the  *)
(* rounding of float32 tensors is left out, so "within tolerance" reads as *)
(* equality.                                                               *)
(***************************************************************************)
FNaN == NaNMean

FNone == NoMean

FInf(sign) == [k |-> "inf", n |-> sign, d |-> 1]

\* pow(10, 63) * sign (lines 120 and 127)
Big(sign) == [k |-> "big", n |-> sign, d |-> 1]

Rat(n, d) == IF d < 0 THEN Fraction(-n, -d) ELSE Fraction(n, d)

Sign(n) == IF n < 0 THEN -1 ELSE IF n > 0 THEN 1 ELSE 0

\* float(real) of a priming or input value that parses
ToFloat(x) ==
    CASE x.k = "nan" -> FNaN
      [] x.k = "inf" -> FInf(1)
      [] OTHER -> Fraction(x.h, 2)

\* np.isnan(a)
FIsNaN(a) == a.k = "nan"

\* a == float('inf')
FIsPosInf(a) == a.k = "inf" /\ a.n = 1

\* a < 0 and a > 0 on floats: both False on NaN
FNegative(a) == a.k \in {"rat", "inf"} /\ a.n < 0

FPositive(a) == a.k \in {"rat", "inf"} /\ a.n > 0

\* a > 0.5 and a < 0.5
FAboveHalf(a) ==
    \/ a.k = "inf" /\ a.n = 1
    \/ a.k = "rat" /\ 2 * a.n > a.d

FBelowHalf(a) ==
    \/ a.k = "inf" /\ a.n = -1
    \/ a.k = "rat" /\ 2 * a.n < a.d

\* abs(a)
FAbs(a) ==
    CASE a.k \in {"rat", "inf", "big"} -> [a EXCEPT !.n = Abs(a.n)]
      [] a.k = "negexp" -> [a EXCEPT !.k = "exp"]
      [] OTHER -> a

\* a / b where b is a numpy float: a zero divisor gives an infinity or NaN,
\* no exception
FDiv(a, b) ==
    CASE a.k = "nan" \/ b.k = "nan" -> FNaN
      [] a.k = "inf" /\ b.k = "inf" -> FNaN
      [] a.k = "inf" -> FInf(IF b.n < 0 THEN -a.n ELSE a.n)
      [] b.k = "inf" -> Fraction(0, 1)
      [] b.n = 0 -> IF a.n = 0 THEN FNaN ELSE FInf(Sign(a.n))
      [] OTHER -> Rat(a.n * b.d, a.d * b.n)

\* a * b
FMul(a, b) ==
    CASE a.k = "nan" \/ b.k = "nan" -> FNaN
      [] a.k = "inf" \/ b.k = "inf" ->
             IF a.n = 0 \/ b.n = 0 THEN FNaN ELSE FInf(Sign(a.n) * Sign(b.n))
      [] OTHER -> Fraction(a.n * b.n, a.d * b.d)

\* math.log(a) of a positive float
FLog(a) ==
    CASE a.k = "inf" -> FInf(1)
      [] a.n = a.d -> Fraction(0, 1)
      [] OTHER -> [k |-> "log", n |-> a.n, d |-> a.d]

\* math.exp(a) raises OverflowError: a is above log of the largest float
FExpOverflows(a) == a.k = "rat" /\ a.n > 709 * a.d

\* math.exp(a) when it does not raise
FExp(a) ==
    CASE a.k = "nan" -> FNaN
      [] a.k = "inf" -> IF a.n = 1 THEN FInf(1) ELSE Fraction(0, 1)
      [] a.k = "log" -> Fraction(a.n, a.d)
      [] a.k = "rat" /\ a.n = 0 -> Fraction(1, 1)
      [] OTHER -> [k |-> "exp", n |-> a.n, d |-> a.d]

\* a * sign for sign 1 or -1
FSigned(a, sign) ==
    IF sign = 1
    THEN a
    ELSE CASE a.k \in {"rat", "inf", "big"} -> [a EXCEPT !.n = -a.n]
           [] a.k = "exp" -> [a EXCEPT !.k = "negexp"]
           [] a.k = "negexp" -> [a EXCEPT !.k = "exp"]
           [] OTHER -> a

ErrType == "TypeError"
ErrKey == "KeyError"

\* int(a) (line 143): truncation towards zero; ValueError on NaN,
\* OverflowError on an infinity.  e^q truncates to 0 for q < 0.
ToInt(a) ==
    CASE a.k = "nan" -> [value |-> FNone, error |-> ErrValue]
      [] a.k = "inf" -> [value |-> FNone, error |-> ErrOverflow]
      [] a.k = "rat" ->
             [value |-> Fraction(Sign(a.n) * (Abs(a.n) \div a.d), 1),
              error |-> ErrNone]
      [] a.k \in {"exp", "negexp"} /\ a.n < 0 ->
             [value |-> Fraction(0, 1), error |-> ErrNone]
      [] OTHER -> [value |-> a, error |-> ErrNone]

\* round(a) (line 153): to the nearest integer, halves to the even one;
\* ValueError on NaN, OverflowError on an infinity.
Round(a) ==
    CASE a.k = "nan" -> [value |-> FNone, error |-> ErrValue]
      [] a.k = "inf" -> [value |-> FNone, error |-> ErrOverflow]
      [] OTHER ->
             LET floor == a.n \div a.d
                 rem == a.n - floor * a.d
                 up == \/ 2 * rem > a.d
                       \/ 2 * rem = a.d /\ floor % 2 = 1
             IN  [value |-> Fraction(IF up THEN floor + 1 ELSE floor, 1),
                  error |-> ErrNone]

(***************************************************************************)
(* Group information: a dict from group column to the list of that         *)
(* column's values, one per row, kept as the sequence of its lists.  The   *)
(* normalizers are a dict from frozenset of group values, or "__default",  *)
(* to an object with an abs_mean.                                          *)
(***************************************************************************)
\* the set() that stands for "no group" in the default group_info
EmptySet == "set()"

\* extra_data=None / group_info=None
NoGroupInfo == [given |-> FALSE, group_info |-> <<>>]

GroupInfo(columns) == [given |-> TRUE, group_info |-> columns]

\* self.normalizers = None (line 22)
NoNormalizers == [none |-> TRUE, entries |-> {}]

\* normalizers built from training data in which group "A" occurred
TrainedNormalizers ==
    [none |-> FALSE,
     entries |-> {[name |-> "__default", key |-> {}, abs_mean |-> Fraction(2, 1)],
                  [name |-> "group", key |-> {"A"}, abs_mean |-> Fraction(3, 1)]}]

\* extra_data is None or not extra_data[0]['group_info'] (line 54);
\* not group_info (line 111)
NoGroups(info) == ~info.given \/ info.group_info = <<>>

\* {'__default': [set()] * len(data)} (lines 55 and 112)
DefaultGroupInfo(n) == <<[i \in 1..n |-> EmptySet]>>

RECURSIVE MinLen(_, _)
MinLen(columns, c) ==
    IF c = Len(columns)
    THEN Len(columns[c])
    ELSE SeqMin(Len(columns[c]), MinLen(columns, c + 1))

\* list(zip(*group_info.values())): one tuple of group values per row
ZipGroups(columns) ==
    [i \in 1..MinLen(columns, 1) |-> [c \in 1..Len(columns) |-> columns[c][i]]]

\* Variant of NotGroup that takes the branch for every group tuple.
NotGroup_Always(group) == TRUE

\* not group (lines 70 and 129): the tuple is empty
NotGroup(group) == Len(group) = 0

\* self.normalizers[frozenset(group)].abs_mean with its KeyError fallback
\* to self.normalizers['__default'].abs_mean (lines 71-75 and 130-134)
NormalizerMean(normalizers, group) ==
    LET key == {group[c] : c \in 1..Len(group)}
        own == {n \in normalizers.entries : n.name = "group" /\ n.key = key}
        default == {n \in normalizers.entries : n.name = "__default"}
    IN  IF EmptySet \in key
        THEN \* frozenset of a tuple holding a set: unhashable
             [mean |-> FNone, error |-> ErrType]
        ELSE IF normalizers.none
             THEN [mean |-> FNone, error |-> ErrType]
             ELSE IF own # {}
                  THEN [mean |-> (CHOOSE n \in own : TRUE).abs_mean,
                        error |-> ErrNone]
                  ELSE IF default # {}
                       THEN [mean |-> (CHOOSE n \in default : TRUE).abs_mean,
                             error |-> ErrNone]
                       ELSE [mean |-> FNone, error |-> ErrKey]

\* The mean a target row is scaled by (lines 70-77 and 129-136).
RowMean(e, group) ==
    IF NotGroup(group)
    THEN NormalizerMean(e.normalizers, group)
    ELSE [mean |-> e._abs_mean, error |-> ErrNone]

(***************************************************************************)
(* TsNumericEncoder.encode                                                 *)
(***************************************************************************)
\* Variant of NotPrepared that lets every call through.
NotPrepared_Never(e) == FALSE

\* if not self._prepared (lines 52 and 104)
NotPrepared(e) == ~e._prepared

\* real.replace(',', '.') parses as a float (line 65): real is a string
\* with a decimal comma
ReplaceFloatParses(x) == x.k = "comma"

\* Variant of Coerce in which a value that fails both conversions is taken
\* for zero.
Coerce_ZeroOnFailure(x) ==
    IF FloatParses(x) \/ ReplaceFloatParses(x) THEN ToFloat(x) ELSE Fraction(0, 1)

\* lines 61-67: float(real), then float(real.replace(',', '.')), then None
Coerce(x) ==
    IF FloatParses(x)
    THEN ToFloat(x)
    ELSE IF ReplaceFloatParses(x) THEN ToFloat(x) ELSE FNone

Zero == Fraction(0, 1)

One == Fraction(1, 1)

\* math.log(abs(real)) if abs(real) > 0 else -20 (lines 80 and 92)
LogMagnitude(real) ==
    IF FPositive(FAbs(real)) THEN FLog(FAbs(real)) ELSE Fraction(-20, 1)

\* 1 if real < 0 and not self.positive_domain else 0 (lines 79 and 93)
SignFlag(e, real) == IF FNegative(real) /\ ~e.positive_domain THEN One ELSE Zero

\* One turn of the loop of lines 60-99: the vector appended for a value
\* and its group tuple, or the exception that leaves the loop.
EncodeRow(e, value, group) ==
    LET real == Coerce(value) IN
    IF e.is_target
    THEN LET m == RowMean(e, group) IN
         IF m.error # ErrNone
         THEN [vector |-> <<>>, error |-> m.error]
         ELSE IF real # FNone /\ FPositive(m.mean)
              THEN [vector |-> <<SignFlag(e, real), LogMagnitude(real),
                                 FDiv(real, m.mean)>>,
                    error |-> ErrNone]
              ELSE [vector |-> <<Zero, Zero, Zero>>, error |-> ErrNone]
    ELSE IF real = FNone
         THEN [vector |-> <<Zero, Zero, Zero, Zero>>, error |-> ErrNone]
         ELSE [vector |-> <<One, LogMagnitude(real), SignFlag(e, real),
                            FDiv(real, e._abs_mean)>>,
               error |-> ErrNone]

\* the first row whose turn raises, or 0
FirstError(rows) ==
    IF \E i \in 1..Len(rows) : rows[i].error # ErrNone
    THEN CHOOSE i \in 1..Len(rows) :
            /\ rows[i].error # ErrNone
            /\ \A j \in 1..(i - 1) : rows[j].error = ErrNone
    ELSE 0

\* encode(data, extra_data) on an encoder with attributes e: the rows of the
\* tensor returned, or the exception raised.
EncodeResult(e, data, extra_data) ==
    IF NotPrepared(e)
    THEN [output |-> <<>>, error |-> ErrPrepareFirst]
    ELSE LET columns == IF NoGroups(extra_data)
                        THEN DefaultGroupInfo(Len(data))
                        ELSE extra_data.group_info
             groups == ZipGroups(columns)
             rows == [i \in 1..SeqMin(Len(data), Len(groups)) |->
                         EncodeRow(e, data[i], groups[i])]
             bad == FirstError(rows)
         IN  IF bad # 0
             THEN [output |-> <<>>, error |-> rows[bad].error]
             ELSE [output |-> [i \in 1..Len(rows) |-> rows[i].vector],
                   error |-> ErrNone]

(***************************************************************************)
(* TsNumericEncoder.decode                                                 *)
(***************************************************************************)
\* if decode_log is None: decode_log = self.decode_log (lines 107-108)
DecodeLog(e, decode_log) ==
    IF decode_log = "None" THEN e.decode_log ELSE decode_log = "True"

\* the test of line 118: a NaN or float('inf') among the three components
Unrepresentable(vector) ==
    \E c \in 1..3 : FIsNaN(vector[c]) \/ FIsPosInf(vector[c])

\* Variant of Finish that takes the absolute value whatever positive_domain
\* is.
Finish_Positive(e, real_value) ==
    IF e._type = "int"
    THEN ToInt(FAbs(real_value))
    ELSE [value |-> FAbs(real_value), error |-> ErrNone]

\* lines 140-143: abs() under positive_domain, int() for the 'int' type
Finish(e, real_value) ==
    LET positive == IF e.positive_domain THEN FAbs(real_value) ELSE real_value
    IN  IF e._type = "int"
        THEN ToInt(positive)
        ELSE [value |-> positive, error |-> ErrNone]

\* One turn of the loop of lines 116-155: the value appended for a vector
\* and its group tuple, or the exception that leaves the loop.
DecodeRow(e, vector, group, decode_log) ==
    IF e.is_target
    THEN IF Unrepresentable(vector)
         THEN [value |-> Big(1), error |-> ErrNone]
         ELSE IF decode_log
              THEN LET sign == IF FAboveHalf(vector[1]) THEN -1 ELSE 1 IN
                   IF FExpOverflows(vector[2])
                   THEN Finish(e, Big(sign))
                   ELSE Finish(e, FSigned(FExp(vector[2]), sign))
              ELSE LET m == RowMean(e, group) IN
                   IF m.error # ErrNone
                   THEN [value |-> FNone, error |-> m.error]
                   ELSE Finish(e, FMul(vector[3], m.mean))
    ELSE IF FBelowHalf(vector[1])
         THEN [value |-> FNone, error |-> ErrNone]
         ELSE LET real_value == FMul(vector[4], e._abs_mean) IN
              IF e._type = "int"
              THEN Round(real_value)
              ELSE [value |-> real_value, error |-> ErrNone]

\* decode(encoded_values, decode_log, group_info) on an encoder with
\* attributes e: the list returned, or the exception raised.
DecodeResult(e, encoded_values, decode_log, group_info) ==
    IF NotPrepared(e)
    THEN [output |-> <<>>, error |-> ErrPrepareFirst]
    ELSE LET columns == IF NoGroups(group_info)
                        THEN DefaultGroupInfo(Len(encoded_values))
                        ELSE group_info.group_info
             groups == ZipGroups(columns)
             rows == [i \in 1..SeqMin(Len(encoded_values), Len(groups)) |->
                         DecodeRow(e, encoded_values[i], groups[i],
                                   DecodeLog(e, decode_log))]
             bad == FirstError(rows)
         IN  IF bad # 0
             THEN [output |-> <<>>, error |-> rows[bad].error]
             ELSE [output |-> [i \in 1..Len(rows) |-> rows[i].value],
                   error |-> ErrNone]

(***************************************************************************)
(* The encoder's operations.  Neither encode nor decode assigns to an      *)
(* attribute of the encoder.                                               *)
(***************************************************************************)
\* a decode argument that no encode call returned
NoSource == [encoded |-> FALSE, data |-> <<>>, extra_data |-> NoGroupInfo]

\* What the last call was: the method, its arguments (input, extra), the
\* attributes it found, the exception it raised, what it returned, for a
\* decode call the encode call its argument came from, and whether the call
\* followed a prepare call (second) and a prepare call that completed
\* (after_success).
NoOp == [op |-> "none", input |-> <<>>, extra |-> <<>>, before |-> <<>>,
         error |-> ErrNone, output |-> <<>>, source |-> NoSource,
         second |-> FALSE, after_success |-> FALSE]

\* prepare(priming_data) for some priming_data of the given set
PrepareWith(priming) ==
    /\ \E priming_data \in priming :
          LET r == PrepareResult(enc, priming_data) IN
          /\ enc' = r.enc
          /\ last_op' = [op |-> "prepare", input |-> priming_data,
                         extra |-> <<>>, before |-> enc, error |-> r.error,
                         output |-> <<>>, source |-> NoSource,
                         second |-> prepare_called,
                         after_success |-> prepare_succeeded]
          /\ prepare_succeeded' = (prepare_succeeded \/ r.error = ErrNone)
    /\ prepare_called' = TRUE
    /\ UNCHANGED bvars
    /\ UNCHANGED avars

Prepare == PrepareWith(PrimingData)

\* the values encode is given
EncodeValues ==
    {Number(0), Number(-2), Number(3), CommaString(3), BadString}

\* the group values of a row: "A" occurred in the training data, "Z" did not
GroupKeys == {"A", "Z"}

\* extra_data for data: None, an empty group map, or one group column with
\* a value per row
ExtraFor(data) ==
    {NoGroupInfo, GroupInfo(<<>>)}
        \cup {GroupInfo(<<column>>) : column \in [1..Len(data) -> GroupKeys]}

\* the arguments of encode for data of at most n rows
EncodeArgs(n) ==
    UNION {{[data |-> data, extra_data |-> extra_data] :
               extra_data \in ExtraFor(data)} :
           data \in UNION {[1..k -> EncodeValues] : k \in 0..n}}

\* encode(data, extra_data) for some arguments of the given set
EncodeCall(args) ==
    /\ \E a \in args :
          LET r == EncodeResult(enc, a.data, a.extra_data) IN
          last_op' = [op |-> "encode", input |-> a.data,
                      extra |-> a.extra_data, before |-> enc,
                      error |-> r.error, output |-> r.output,
                      source |-> NoSource, second |-> FALSE,
                      after_success |-> prepare_succeeded]
    /\ UNCHANGED <<enc, prepare_called, prepare_succeeded>>
    /\ UNCHANGED bvars
    /\ UNCHANGED avars

\* an ordinary target vector: sign 0, log-magnitude 0, scaled value 1
TargetRow == <<Zero, Zero, One>>

\* target vectors with a NaN or an infinity of either sign in one position
SpecialRows ==
    {[TargetRow EXCEPT ![c] = s] :
        c \in 1..3, s \in {FNaN, FInf(1), FInf(-1)}}

\* a target vector whose log-magnitude is beyond the range of math.exp
HugeRow == <<Zero, Fraction(1000, 1), Zero>>

\* non-target vectors: a null row and the row of a value equal to the mean
NullRow == <<Zero, Zero, Zero, Zero>>

PlainRow == <<One, Zero, Zero, One>>

\* tensors handed to decode that no encode call of the run returned
ProbeVectors(is_target) ==
    IF is_target
    THEN {<<TargetRow>>, <<HugeRow>>}
            \cup {<<r>> : r \in SpecialRows}
            \cup {<<r, TargetRow>> : r \in SpecialRows}
    ELSE {<<NullRow>>, <<PlainRow>>, <<NullRow, PlainRow>>}

\* the last call was an encode call that returned a tensor
Encoded == last_op.op = "encode" /\ last_op.error = ErrNone

\* the arguments of decode: the tensor the encode call before it returned,
\* with no group information or with the one encode was given; otherwise
\* one of the given tensors, with no group information or one group column
DecodeArgs(probes) ==
    IF Encoded
    THEN {[encoded_values |-> last_op.output, decode_log |-> decode_log,
           group_info |-> group_info,
           source |-> [encoded |-> TRUE, data |-> last_op.input,
                       extra_data |-> last_op.extra]] :
             decode_log \in {"None", "True", "False"},
             group_info \in {NoGroupInfo, last_op.extra}}
    ELSE UNION {{[encoded_values |-> v, decode_log |-> decode_log,
                  group_info |-> group_info, source |-> NoSource] :
                    decode_log \in {"None", "True", "False"},
                    group_info \in {NoGroupInfo, GroupInfo(<<>>)}
                        \cup {GroupInfo(<<[i \in 1..Len(v) |-> g]>>) :
                                 g \in GroupKeys}} :
                v \in probes}

\* decode(encoded_values, decode_log, group_info) for some arguments of the
\* given set
DecodeCall(args) ==
    /\ \E a \in args :
          LET r == DecodeResult(enc, a.encoded_values, a.decode_log,
                                a.group_info)
          IN  last_op' = [op |-> "decode", input |-> a.encoded_values,
                          extra |-> [decode_log |-> a.decode_log,
                                     group_info |-> a.group_info],
                          before |-> enc, error |-> r.error,
                          output |-> r.output, source |-> a.source,
                          second |-> FALSE,
                          after_success |-> prepare_succeeded]
    /\ UNCHANGED <<enc, prepare_called, prepare_succeeded>>
    /\ UNCHANGED bvars
    /\ UNCHANGED avars

\* encode and decode as SpecEnc calls them: one value at a time, with no
\* group information
Encode == EncodeCall({a \in EncodeArgs(1) : a.extra_data = NoGroupInfo})

Decode ==
    DecodeCall({a \in DecodeArgs({<<TargetRow>>, <<PlainRow>>}) :
                   a.decode_log = "None" /\ a.group_info = NoGroupInfo})

(***************************************************************************)
(* The encoder as SpecCodec drives it: prepared on one of a few series,    *)
(* its positive_domain and normalizers assigned by the pipeline that owns  *)
(* it, then asked to encode and to decode what encode returned.  A run     *)
(* ends with its decode call: no call changes the encoder, so longer runs  *)
(* reach nothing else.                                                     *)
(***************************************************************************)
\* priming series: all zeros, a negative integer, mixed signs with a
\* fraction, no value at all, and one prepare refuses
CodecPriming ==
    {<<Number(0), Number(0)>>, <<Number(-2)>>, <<Number(-2), Number(3)>>,
     <<>>, <<NaNValue>>}

Calling == last_op.op \in {"none", "prepare"}

\* the one prepare call of the run (SpecEnc has the repeated ones)
CodecPrepare == last_op.op = "none" /\ PrepareWith(CodecPriming)

\* The owner of the encoder assigns positive_domain and normalizers, which
\* __init__ left at False and None (lines 19 and 22).
Configure ==
    /\ Calling
    /\ enc.normalizers = NoNormalizers
    /\ ~enc.positive_domain
    /\ \E positive_domain \in BOOLEAN,
          normalizers \in {NoNormalizers, TrainedNormalizers} :
          /\ positive_domain \/ normalizers # NoNormalizers
          /\ enc' = [enc EXCEPT !.positive_domain = positive_domain,
                                !.normalizers = normalizers]
    /\ UNCHANGED <<last_op, prepare_called, prepare_succeeded>>
    /\ UNCHANGED bvars
    /\ UNCHANGED avars

CodecEncode == Calling /\ EncodeCall(EncodeArgs(MaxRows))

CodecDecode ==
    /\ Calling \/ Encoded
    /\ DecodeCall(DecodeArgs(ProbeVectors(enc.is_target)))

(***************************************************************************)
(* timeseries_analyzer.get_delta.  A frame is the sequence of its rows; a  *)
(* row has its value in the ordering column, itself a short sequence of    *)
(* numbers, and its value in the grouping column.  The frame has one       *)
(* ordering column, "t".                                                   *)
(***************************************************************************)
OrderValues == {<<0>>, <<1>>, <<3>>, <<7, 1>>}

GroupValues == {"A", "B"}

\* the series of testable property 4, in one group
ExampleSeries == <<0, 1, 2, 3, 10, 11, 12>>

ExampleFrame == [i \in 1..Len(ExampleSeries) |-> [t |-> <<ExampleSeries[i]>>, g |-> "A"]]

Frames ==
    UNION {[1..n -> [t : OrderValues, g : GroupValues]] : n \in 0..MaxFrameRows}
        \cup {ExampleFrame}

\* the arguments of get_delta: the frame, and whether group_by is set
\* (ts_info['group_info'] is then the grouping column, else {})
DeltaInputs == {[df |-> df, grouped |-> grouped] : df \in Frames, grouped \in BOOLEAN}

ErrIndex == "IndexError"

\* pd.Series([x[-1] for x in df[col]]) (lines 47 and 57)
OrderSeries(df) == [i \in 1..Len(df) |-> df[i].t[Len(df[i].t)]]

\* series.rolling(window=2).apply(lambda x: x.iloc[1] - x.iloc[0]) (lines 48
\* and 60), without the NaN of its first window, which value_counts drops
RollingDiff(series) == [i \in 1..(Len(series) - 1) |-> series[i + 1] - series[i]]

\* the number of times d occurs among diffs
ValueCount(diffs, d) == Cardinality({i \in 1..Len(diffs) : diffs[i] = d})

\* Variant of MostFrequent that takes any of the differences.
MostFrequent_Any(diffs) == {diffs[i] : i \in 1..Len(diffs)}

\* value_counts(ascending=False).keys()[0] (lines 49 and 64): a value with
\* the highest count; pandas leaves the order of equal counts open
MostFrequent(diffs) ==
    {diffs[i] : i \in {i \in 1..Len(diffs) :
                          \A j \in 1..Len(diffs) :
                              ValueCount(diffs, diffs[i]) >= ValueCount(diffs, diffs[j])}}

\* group_combinations, as generate_target_group_normalizers returns them:
\* "__default" and every group value of the data
GroupCombinations(df) == {"__default"} \cup {df[i].g : i \in 1..Len(df)}

RECURSIVE Matches(_, _, _)
Matches(df, group, i) ==
    IF i > Len(df)
    THEN <<>>
    ELSE (IF df[i].g = group THEN <<df[i]>> ELSE <<>>)
             \o Matches(df, group, i + 1)

\* get_group_matches(ts_info, group)[1] (line 58): the ordering values of
\* the rows of the group
GroupSubset(df, group) == OrderSeries(Matches(df, group, 1))

NoDelta == [some |-> FALSE, delta |-> 0]

SomeDelta(d) == [some |-> TRUE, delta |-> d]

\* lines 57-65 for one group: the delta stored for the ordering column, if
\* subset.size > 1
GroupDeltas(df, group) ==
    LET subset == GroupSubset(df, group) IN
    IF Len(subset) > 1
    THEN {SomeDelta(d) : d \in MostFrequent(RollingDiff(subset))}
    ELSE {NoDelta}

\* deltas[group], a dict from ordering column to delta: {} (line 55) or
\* {"t": delta} (line 65)
DeltaEntry(choice) == [col \in (IF choice.some THEN {"t"} ELSE {}) |-> choice.delta]

\* get_delta(df, ts_info, group_combinations, order_cols): the tables it
\* can return, or the exception it raises.
GetDeltaResults(input) ==
    LET df == input.df
        default == MostFrequent(RollingDiff(OrderSeries(df)))
        groups == IF input.grouped
                  THEN GroupCombinations(df) \ {"__default"}
                  ELSE {}
        defaults == {SomeDelta(d) : d \in default}
        choices == defaults \cup UNION {GroupDeltas(df, g) : g \in groups}
    IN  IF default = {}
        THEN \* keys()[0] of an empty index (line 49)
             {[error |-> ErrIndex, deltas |-> <<>>]}
        ELSE {[error |-> ErrNone,
               deltas |-> [k \in groups \cup {"__default"} |-> DeltaEntry(f[k])]] :
                 f \in {f \in [groups \cup {"__default"} -> choices] :
                           /\ f["__default"] \in defaults
                           /\ \A g \in groups : f[g] \in GroupDeltas(df, g)}}

NoFrame == [df |-> <<>>, grouped |-> FALSE]

NoOutput == [op |-> "none", error |-> ErrNone, deltas |-> <<>>]

GetDelta ==
    /\ ts_output.op = "none"
    /\ \E r \in GetDeltaResults(ts_input) :
          ts_output' = [op |-> "get_delta", error |-> r.error, deltas |-> r.deltas]
    /\ UNCHANGED ts_input
    /\ UNCHANGED <<bvars, evars>>

(***************************************************************************)
(* The specifications.                                                     *)
(***************************************************************************)
\* TsNumericEncoder.__init__(data_type, is_target) (lines 14-23); _prepared
\* starts False in the base class.
NewEncoder(data_type, is_target) ==
    [_prepared |-> FALSE, _type |-> data_type, _abs_mean |-> NoMean,
     is_target |-> is_target, positive_domain |-> FALSE,
     decode_log |-> FALSE, normalizers |-> NoNormalizers]

NoBestOf ==
    /\ mixers = <<>>
    /\ phase = "new"
    /\ avg_list = <<>>
    /\ score_list = <<>>
    /\ init_invoked = <<>>
    /\ init_error = NoError
    /\ indexes_by_accuracy = <<>>
    /\ last_call = NoCall
    /\ init_args = PlainArgs
    /\ context = NoContext
    /\ last_get_context = NoGetContext

NoAnalysis ==
    /\ ts_input = NoFrame
    /\ ts_output = NoOutput

NoEncoder ==
    /\ enc = NewEncoder("None", FALSE)
    /\ last_op = NoOp
    /\ prepare_called = FALSE
    /\ prepare_succeeded = FALSE

Init ==
    /\ mixers \in MixerLists
    /\ phase = "new"
    /\ avg_list = <<>>
    /\ score_list = <<>>
    /\ init_invoked = <<>>
    /\ init_error = NoError
    /\ indexes_by_accuracy = <<>>
    /\ last_call = NoCall
    /\ init_args = PlainArgs
    /\ context = NoContext
    /\ last_get_context = NoGetContext
    /\ NoEncoder
    /\ NoAnalysis

Next ==
    \/ BestOf__init__
    \/ BestOf__call__

Spec == Init /\ [][Next]_vars

InitEnc ==
    /\ \E data_type \in {"None", "int", "float"}, is_target \in BOOLEAN :
          enc = NewEncoder(data_type, is_target)
    /\ last_op = NoOp
    /\ prepare_called = FALSE
    /\ prepare_succeeded = FALSE
    /\ NoBestOf
    /\ NoAnalysis

NextEnc ==
    \/ Prepare
    \/ Encode
    \/ Decode

SpecEnc == InitEnc /\ [][NextEnc]_vars

NextCodec ==
    \/ CodecPrepare
    \/ Configure
    \/ CodecEncode
    \/ CodecDecode

SpecCodec == InitEnc /\ [][NextCodec]_vars

InitDelta ==
    /\ ts_input \in DeltaInputs
    /\ ts_output = NoOutput
    /\ NoBestOf
    /\ NoEncoder

NextDelta == GetDelta

SpecDelta == InitDelta /\ [][NextDelta]_vars

(***************************************************************************)
(* timeseries_analyzer.get_ts_residuals.  The target frame has one numeric *)
(* column, kept as the sequence of its values; m is the season length.     *)
(***************************************************************************)
\* rows of the target get_ts_residuals is given
MaxTargetRows == 4

TargetValues == {-2, 1, 2, 3, 6}

SeasonLengths == {1, 2}

TargetSeries == UNION {[1..n -> TargetValues] : n \in 1..MaxTargetRows}

ResidualInputs == {[target |-> t, m |-> m] : t \in TargetSeries, m \in SeasonLengths}

\* Variant of RollingAbsDiff that keeps the sign of the difference.
RollingAbsDiff_Signed(target, m) ==
    [i \in 1..Len(target) |->
        IF i <= m THEN FNaN ELSE Rat(target[i] - target[i - m], 1)]

\* target_data.rolling(window=m+1).apply(lambda x: abs(x.iloc[m] - x.iloc[0]))
\* (line 75): a row whose window is not full holds NaN
RollingAbsDiff(target, m) ==
    [i \in 1..Len(target) |->
        IF i <= m THEN FNaN ELSE Rat(Abs(target[i] - target[i - m]), 1)]

\* rows[m:] (line 75): empty when the frame has no more than m rows
SliceFrom(rows, m) ==
    [i \in 1..(IF Len(rows) > m THEN Len(rows) - m ELSE 0) |-> rows[i + m]]

RECURSIVE SumNumerators(_, _)
SumNumerators(values, i) ==
    IF i > Len(values) THEN 0 ELSE values[i].n + SumNumerators(values, i + 1)

\* np.average(residuals) (line 76): the mean of all the entries; of no entry
\* it is NaN, with a RuntimeWarning and no exception.  The entries are whole
\* numbers or NaN.
Average(values) ==
    IF Len(values) = 0 \/ \E i \in 1..Len(values) : FIsNaN(values[i])
    THEN FNaN
    ELSE Rat(SumNumerators(values, 1), Len(values))

\* get_ts_residuals(target_data, m) (lines 75-77): the pair it returns
GetTsResidualsResult(input) ==
    LET residuals == SliceFrom(RollingAbsDiff(input.target, input.m), input.m)
        scale_factor == Average(residuals)
    IN  [error |-> ErrNone, residuals |-> residuals, scale_factor |-> scale_factor]

NoResiduals ==
    [op |-> "none", error |-> ErrNone, residuals |-> <<>>, scale_factor |-> FNone]

GetTsResiduals ==
    /\ ts_output.op = "none"
    /\ LET r == GetTsResidualsResult(ts_input) IN
          ts_output' = [op |-> "get_ts_residuals", error |-> r.error,
                        residuals |-> r.residuals,
                        scale_factor |-> r.scale_factor]
    /\ UNCHANGED ts_input
    /\ UNCHANGED <<bvars, evars>>

InitResiduals ==
    /\ ts_input \in ResidualInputs
    /\ ts_output = NoResiduals
    /\ NoBestOf
    /\ NoEncoder

NextResiduals == GetTsResiduals

SpecResiduals == InitResiduals /\ [][NextResiduals]_vars

\* BestOf built on one mixer at most, over every validation frame and
\* analysis, then asked for its context.
InitContext ==
    /\ mixers \in {ms \in MixerLists : Len(ms) <= 1}
    /\ phase = "new"
    /\ avg_list = <<>>
    /\ score_list = <<>>
    /\ init_invoked = <<>>
    /\ init_error = NoError
    /\ indexes_by_accuracy = <<>>
    /\ last_call = NoCall
    /\ init_args \in ContextArgs
    /\ context = NoContext
    /\ last_get_context = NoGetContext
    /\ NoEncoder
    /\ NoAnalysis

NextContext ==
    \/ BestOf__init__
    \/ GetContext

SpecContext == InitContext /\ [][NextContext]_vars

(***************************************************************************)
(* Properties of BestOf, checked under Spec.                               *)
(***************************************************************************)
\* seq is the ranking's first Len(seq) entries
IsRankingPrefix(seq) ==
    /\ Len(seq) <= Len(indexes_by_accuracy)
    /\ \A k \in 1..Len(seq) : seq[k] = indexes_by_accuracy[k]

\* mixer i (0-based) raised during the last call
RaisedInCall(i) == \E k \in 1..Len(last_call.raised) : last_call.raised[k] = i

\* the position (1-based) of mixer i (0-based) in the ranking
RankOf(i) == CHOOSE k \in 1..Len(indexes_by_accuracy) : indexes_by_accuracy[k] = i

\* C1: in default mode the mixers are invoked strictly in the order of
\* indexes_by_accuracy; an unstable mixer that raises is followed by the
\* next-ranked mixer; a mixer that does not raise ends the call, which
\* returns exactly that mixer's result, every mixer before it having raised,
\* and no mixer ranked after it is invoked.
C1_RankedFailover ==
    last_call.mode = "default" =>
        /\ IsRankingPrefix(last_call.invoked)
        /\ \A k \in 1..Len(last_call.invoked) :
              LET mi == last_call.invoked[k] IN
              /\ (RaisedInCall(mi) /\ ~mixers[mi + 1].stable
                    /\ k < Len(indexes_by_accuracy))
                    => k < Len(last_call.invoked)
              /\ ~RaisedInCall(mi)
                    => /\ k = Len(last_call.invoked)
                       /\ last_call.outcome = "return"
                       /\ last_call.result = Prediction(mi)
                       /\ \A j \in 1..(k - 1) :
                             /\ RaisedInCall(last_call.invoked[j])
                             /\ ~mixers[last_call.invoked[j] + 1].stable

\* C1 witness: the two best-ranked mixers raised, the third answered, and
\* the ranking is not the list order.
C1_Witness ==
    /\ last_call.mode = "default"
    /\ last_call.outcome = "return"
    /\ Len(last_call.invoked) = 3
    /\ Len(last_call.raised) = 2
    /\ indexes_by_accuracy # <<0, 1, 2>>

\* C2: in default mode a stable mixer that raises ends the call: the caller
\* gets that mixer's exception and no lower-ranked mixer is invoked.
C2_StableRaiseIsFatal ==
    last_call.mode = "default" =>
        \A k \in 1..Len(last_call.invoked) :
            LET mi == last_call.invoked[k] IN
            (RaisedInCall(mi) /\ mixers[mi + 1].stable)
                => /\ k = Len(last_call.invoked)
                   /\ last_call.outcome = "raise"
                   /\ last_call.error = MixerError(mi)

\* C2 witness: a stable mixer raised after an unstable one had failed over,
\* with a lower-ranked mixer left untried.
C2_Witness ==
    /\ last_call.mode = "default"
    /\ last_call.outcome = "raise"
    /\ Len(last_call.invoked) = 2
    /\ Len(indexes_by_accuracy) = 3
    /\ mixers[last_call.invoked[2] + 1].stable

\* C3: in default mode, when every mixer of the ranking was tried and
\* raised, all of them unstable, the caller gets an explicit "no usable
\* mixer" error.
C3_ExhaustionRaises ==
    (/\ last_call.mode = "default"
     /\ Len(last_call.invoked) = Len(indexes_by_accuracy)
     /\ \A k \in 1..Len(last_call.invoked) :
           /\ RaisedInCall(last_call.invoked[k])
           /\ ~mixers[last_call.invoked[k] + 1].stable)
        => /\ last_call.outcome = "raise"
           /\ last_call.error.kind = "NoUsableMixer"

\* C4: after construction indexes_by_accuracy is a permutation of 0..n-1
\* along which the scores never increase, so that no mixer scores higher
\* than the one at index 0.
C4_RankingDescending ==
    phase = "ready" =>
        LET n == Len(mixers) IN
        /\ Len(indexes_by_accuracy) = n
        /\ Len(score_list) = n
        /\ \A i \in 0..(n - 1) :
              \E k \in 1..n : indexes_by_accuracy[k] = i
        /\ \A k \in 1..(n - 1) :
              ~FloatLess(score_list[indexes_by_accuracy[k] + 1],
                         score_list[indexes_by_accuracy[k + 1] + 1])
        /\ \A i \in 1..n :
              ~FloatLess(score_list[indexes_by_accuracy[1] + 1], score_list[i])

\* C4 witness: three mixers with three different scores, the best of them
\* last in the list.
C4_Witness ==
    /\ phase = "ready"
    /\ Len(mixers) = 3
    /\ score_list = <<NEG_2_63, Num(5), Num(9)>>

\* C5: a mixer whose average is NaN gets the score -2^63 and is ranked
\* after every mixer with a finite score above -2^63, hence not first when
\* there is one; the averages [0.5, NaN, 0.9] give the ranking [2, 0, 1].
C5_NaNRankedLast ==
    phase = "ready" =>
        /\ \A i \in 1..Len(avg_list) :
              avg_list[i].nan =>
                  /\ score_list[i] = NEG_2_63
                  /\ \A j \in 1..Len(avg_list) :
                        (~avg_list[j].nan /\ FloatLess(NEG_2_63, avg_list[j]))
                            => /\ RankOf(j - 1) < RankOf(i - 1)
                               /\ indexes_by_accuracy[1] # i - 1
        /\ avg_list = <<Num(5), NaN, Num(9)>>
              => indexes_by_accuracy = <<2, 0, 1>>

\* C5 witness: the averages [0.5, NaN, 0.9] have been ranked.
C5_Witness ==
    /\ phase = "ready"
    /\ avg_list = <<Num(5), NaN, Num(9)>>

\* C6: of two mixers with equal scores the one with the lower index in the
\* mixers list comes first in indexes_by_accuracy.
C6_TiesKeepListOrder ==
    phase = "ready" =>
        \A i, j \in 0..(Len(mixers) - 1) :
            (i < j /\ score_list[i + 1] = score_list[j + 1])
                => RankOf(i) < RankOf(j)

\* C7: in "all mixers" mode a call that returns gives a table with exactly
\* one column per mixer of self.mixers.
C7_OneColumnPerMixer ==
    (last_call.mode = "all" /\ last_call.outcome = "return")
        => Len(last_call.columns) = Len(mixers)

\* C8: in "all mixers" mode the mixers are invoked in list order whatever
\* the ranking, and the first mixer that raises, stable or not, ends the
\* call with its exception.
C8_AllMixersNoFailover ==
    last_call.mode = "all" =>
        /\ \A k \in 1..Len(last_call.invoked) : last_call.invoked[k] = k - 1
        /\ \A k \in 1..Len(last_call.invoked) :
              RaisedInCall(last_call.invoked[k])
                  => /\ k = Len(last_call.invoked)
                     /\ last_call.outcome = "raise"
                     /\ last_call.error = MixerError(last_call.invoked[k])
        /\ last_call.outcome = "return"
              => Len(last_call.invoked) = Len(mixers)

\* C8 witness: an unstable mixer raised in "all mixers" mode with mixers
\* left after it, under a ranking that is not the list order.
C8_Witness ==
    /\ last_call.mode = "all"
    /\ last_call.outcome = "raise"
    /\ Len(last_call.invoked) = 2
    /\ Len(mixers) = 3
    /\ ~mixers[2].stable
    /\ indexes_by_accuracy # <<0, 1, 2>>

(***************************************************************************)
(* Properties of TsNumericEncoder, checked under SpecEnc.                  *)
(***************************************************************************)
HasNaN(priming_data) ==
    \E i \in 1..Len(priming_data) : priming_data[i].k = "nan"

\* C9 as stated: every prepare call after the first one on an instance
\* fails with the "prepare only once" error.
C9_SecondPrepareFails ==
    (last_op.op = "prepare" /\ last_op.second)
        => last_op.error = ErrPrepareOnce

\* C9 as amended: every prepare call on an instance on which an earlier
\* prepare call completed fails with the "prepare only once" error, whatever
\* its input, and leaves the attributes as they were; _prepared is set
\* exactly when a prepare call has completed.
C9_PrepareAfterSuccessFails ==
    /\ enc._prepared <=> prepare_succeeded
    /\ (last_op.op = "prepare" /\ last_op.after_success)
          => /\ last_op.error = ErrPrepareOnce
             /\ enc = last_op.before

\* C9 witness: a prepare call with well-formed input on an encoder that an
\* earlier call had prepared.
C9_Witness ==
    /\ last_op.op = "prepare"
    /\ last_op.after_success
    /\ last_op.input = <<Number(3), Number(-2)>>
    /\ last_op.error = ErrPrepareOnce

\* C10: a prepare call with a NaN among the priming values, on an encoder
\* no prepare call has completed on, fails with the unsupported-NaN error
\* and leaves the encoder as it was: _prepared False, _type and _abs_mean
\* unchanged, encode and decode still refused.
C10_NaNPrepareFails ==
    (last_op.op = "prepare" /\ ~last_op.after_success /\ HasNaN(last_op.input))
        => /\ last_op.error = ErrNaN
           /\ ~enc._prepared
           /\ enc._abs_mean = last_op.before._abs_mean
           /\ enc._type = last_op.before._type
           /\ NotPrepared(enc)

\* C11: on an encoder on which no prepare call has completed, every encode
\* call and every decode call fails with the "call prepare first" error
\* and returns nothing.
C11_UnpreparedRefuses ==
    (last_op.op \in {"encode", "decode"} /\ ~last_op.after_success)
        => /\ last_op.error = ErrPrepareFirst
           /\ last_op.output = <<>>

\* C11 witness: a decode call with a one-row tensor on an encoder whose
\* only prepare calls failed.
C11_Witness ==
    /\ last_op.op = "decode"
    /\ prepare_called
    /\ ~last_op.after_success
    /\ Len(last_op.input) = 1
    /\ last_op.error = ErrPrepareFirst

(***************************************************************************)
(* Properties of encode and decode, checked under SpecCodec.               *)
(***************************************************************************)
\* the normalizers of e built for the group value g alone, and for __default
OwnNormalizers(e, g) ==
    {n \in e.normalizers.entries : n.name = "group" /\ n.key = {g}}

DefaultNormalizers(e) ==
    {n \in e.normalizers.entries : n.name = "__default"}

\* the last call was method op on a prepared target encoder
TargetCall(op) ==
    /\ last_op.op = op
    /\ last_op.before.is_target
    /\ last_op.before._prepared

\* the group value of row i in group information info (one group column)
GroupOf(info, i) == info.group_info[1][i]

\* C12: when a target encoder's encode is given group information, a row
\* whose group key has its own normalizer gets as scaled_value its value
\* divided by that normalizer's abs_mean.
C12_GroupMeanScales ==
    (TargetCall("encode") /\ ~NoGroups(last_op.extra))
        => \A i \in 1..Len(last_op.input) :
              \A n \in OwnNormalizers(last_op.before, GroupOf(last_op.extra, i)) :
                  Coerce(last_op.input[i]) # FNone
                      => /\ last_op.error = ErrNone
                         /\ last_op.output[i][3]
                               = FDiv(Coerce(last_op.input[i]), n.abs_mean)

\* C13: when a row's group key is not among the target encoder's
\* normalizers, encode and decode use the __default normalizer's abs_mean
\* for the row, and the call does not raise.
C13_UnseenGroupUsesDefault ==
    /\ (TargetCall("encode") /\ ~NoGroups(last_op.extra))
          => \A i \in 1..Len(last_op.input) :
                \A n \in DefaultNormalizers(last_op.before) :
                    (/\ OwnNormalizers(last_op.before, GroupOf(last_op.extra, i)) = {}
                     /\ Coerce(last_op.input[i]) # FNone)
                        => /\ last_op.error = ErrNone
                           /\ last_op.output[i][3]
                                 = FDiv(Coerce(last_op.input[i]), n.abs_mean)
    /\ (/\ TargetCall("decode")
        /\ ~NoGroups(last_op.extra.group_info)
        /\ ~DecodeLog(last_op.before, last_op.extra.decode_log))
          => \A i \in 1..Len(last_op.input) :
                \A n \in DefaultNormalizers(last_op.before) :
                    (/\ OwnNormalizers(last_op.before,
                                       GroupOf(last_op.extra.group_info, i)) = {}
                     /\ \A j \in 1..Len(last_op.input) :
                           \A c \in 1..3 : last_op.input[j][c].k = "rat")
                        => /\ last_op.error = ErrNone
                           /\ last_op.output[i]
                                 = Finish(last_op.before,
                                          FMul(last_op.input[i][3],
                                               n.abs_mean)).value

\* the rows of a call's argument and of what it returned
Rows == 1..Len(last_op.input)

\* C14: with no group information (extra_data None or an empty group map
\* for encode, group_info None or empty for decode) a target encoder
\* scales and reconstructs every row with the mean prepare computed, and
\* its normalizers are not looked at: the call raises no lookup error and
\* returns the same with or without normalizers.
C14_NoGroupsUnconditionalMean ==
    /\ (TargetCall("encode") /\ NoGroups(last_op.extra))
          => /\ last_op.error = ErrNone
             /\ Len(last_op.output) = Len(last_op.input)
             /\ \A i \in Rows :
                   LET real == Coerce(last_op.input[i]) IN
                   IF real # FNone /\ FPositive(last_op.before._abs_mean)
                   THEN last_op.output[i][3]
                           = FDiv(real, last_op.before._abs_mean)
                   ELSE last_op.output[i] = <<Zero, Zero, Zero>>
    /\ (/\ TargetCall("decode")
        /\ NoGroups(last_op.extra.group_info)
        /\ ~DecodeLog(last_op.before, last_op.extra.decode_log))
          => /\ last_op.error \in {ErrNone, ErrValue, ErrOverflow}
             /\ last_op.error = ErrNone
                   => /\ Len(last_op.output) = Len(last_op.input)
                      /\ \A i \in Rows :
                            ~Unrepresentable(last_op.input[i])
                                => last_op.output[i]
                                      = Finish(last_op.before,
                                               FMul(last_op.input[i][3],
                                                    last_op.before._abs_mean)).value

\* C14 witness: a target encoder holding normalizers encoded 1.5 with an
\* empty group map and decoded the result with an empty group map.
C14_Witness ==
    /\ TargetCall("decode")
    /\ last_op.before.normalizers = TrainedNormalizers
    /\ last_op.extra.group_info = GroupInfo(<<>>)
    /\ last_op.extra.decode_log = "None"
    /\ last_op.source.encoded
    /\ last_op.source.data = <<Number(3)>>
    /\ last_op.source.extra_data = GroupInfo(<<>>)
    /\ last_op.before._abs_mean = Fraction(5, 4)
    /\ last_op.output = <<Fraction(3, 2)>>

\* the last call was an encode call on a prepared encoder
PreparedEncode == last_op.op = "encode" /\ last_op.before._prepared

\* input value i of the last call is the number 0
IsZeroValue(i) == last_op.input[i] = Number(0)

\* C15: every prepared encoder, target or not and whatever it was primed
\* on, encodes the value 0 to a vector whose log-magnitude is exactly -20.
C15_ZeroEncodesMinus20 ==
    PreparedEncode
        => /\ last_op.error = ErrNone
           /\ \A i \in Rows :
                 IsZeroValue(i) => last_op.output[i][2] = Fraction(-20, 1)

\* x is a series of numbers, with no null and no string
IsNumericSeries(x) == Len(x) > 0 /\ \A i \in 1..Len(x) : x[i].k = "num"

\* a prepare call on x leaves the attributes of e: the mean of x's absolute
\* values, and the 'int' type only if x is all integers
PreparedOn(e, x) ==
    /\ e._prepared
    /\ e._abs_mean = AbsMean(x)
    /\ e._type = "int" => \A i \in 1..Len(x) : ~NotIntegral(x[i])

\* C16: a non-target encoder prepared on a series x of numbers decodes
\* what it encoded from x back to x, element by element, zeros included.
C16_NonTargetRoundTrip ==
    (/\ last_op.op = "decode"
     /\ ~last_op.before.is_target
     /\ last_op.source.encoded
     /\ IsNumericSeries(last_op.source.data)
     /\ PreparedOn(last_op.before, last_op.source.data))
        => /\ last_op.error = ErrNone
           /\ Len(last_op.output) = Len(last_op.source.data)
           /\ \A i \in 1..Len(last_op.output) :
                 last_op.output[i] = ToFloat(last_op.source.data[i])

\* vector has a NaN or an infinity of either sign among its three components
HasNaNOrInfinity(vector) == \E c \in 1..3 : vector[c].k \in {"nan", "inf"}

\* C17: a target encoder's decode never fails on a vector with a NaN or
\* infinite component, of either sign, in any of the three positions, for
\* the int and the float type: the row yields 10^63 and the rows after it
\* are decoded.
C17_SentinelForNonFinite ==
    (/\ TargetCall("decode")
     /\ \E i \in Rows : HasNaNOrInfinity(last_op.input[i])
     /\ \A i \in Rows : \A c \in 1..3 : last_op.input[i][c].k \in {"nan", "inf", "rat"}
     /\ FPositive(last_op.before._abs_mean))
        => /\ last_op.error = ErrNone
           /\ Len(last_op.output) = Len(last_op.input)
           /\ \A i \in Rows :
                 HasNaNOrInfinity(last_op.input[i]) => last_op.output[i] = Big(1)

\* the extra_data that gives row i alone the group value it has in info
RowExtra(info, i) ==
    IF NoGroups(info) THEN info ELSE GroupInfo(<<<<GroupOf(info, i)>>>>)

\* the all-zero vector of an encoder: three components for a target,
\* four otherwise
ZeroVector(e) ==
    IF e.is_target THEN <<Zero, Zero, Zero>> ELSE <<Zero, Zero, Zero, Zero>>

\* C18: in an encode call a value that fails numeric coercion, the retry
\* with a decimal comma included, gets an all-zero vector; the call does
\* not raise, every other row is what encode returns for that value alone,
\* and the tensor has one row per input value.
C18_BadValueZeroVector ==
    PreparedEncode
        => /\ last_op.error = ErrNone
           /\ Len(last_op.output) = Len(last_op.input)
           /\ \A i \in Rows :
                 IF last_op.input[i].k \in {"bad", "none"}
                 THEN last_op.output[i] = ZeroVector(last_op.before)
                 ELSE <<last_op.output[i]>>
                         = EncodeResult(last_op.before, <<last_op.input[i]>>,
                                        RowExtra(last_op.extra, i)).output

\* C18 witness: "abc" and 1.5 encoded in one call of a non-target encoder
\* with a positive mean: a zero row, then the row of 1.5.
C18_Witness ==
    /\ PreparedEncode
    /\ ~last_op.before.is_target
    /\ last_op.before._abs_mean = Fraction(5, 4)
    /\ last_op.input = <<BadString, Number(3)>>
    /\ last_op.output[1] = NullRow
    /\ last_op.output[2] = <<One, [k |-> "log", n |-> 3, d |-> 2], Zero,
                             Fraction(6, 5)>>

(***************************************************************************)
(* Properties of get_delta, checked under SpecDelta.                       *)
(***************************************************************************)
\* get_delta has been called with grouping on
GroupedDelta == ts_output.op = "get_delta" /\ ts_input.grouped

\* the number of rows of the frame in group g
GroupSize(g) == Cardinality({i \in 1..Len(ts_input.df) : ts_input.df[i].g = g})

\* C19: when a group combination has fewer than two matching rows,
\* get_delta does not raise, the table it returns has no entry for that
\* group, and the table has the __default entry.
C19_SmallGroupAbsent ==
    GroupedDelta
        => \A g \in GroupCombinations(ts_input.df) \ {"__default"} :
              GroupSize(g) < 2
                  => /\ ts_output.error = ErrNone
                     /\ g \notin DOMAIN ts_output.deltas
                     /\ "__default" \in DOMAIN ts_output.deltas

\* the differences between consecutive rows of the frame's ordering column
FrameDiffs == RollingDiff(OrderSeries(ts_input.df))

\* get_delta returned a table
DeltaReturned == ts_output.op = "get_delta" /\ ts_output.error = ErrNone

\* the first difference, in row order, that no difference outnumbers
FirstMostFrequent ==
    LET first == CHOOSE i \in 1..Len(FrameDiffs) :
                    /\ \A j \in 1..Len(FrameDiffs) :
                          ValueCount(FrameDiffs, FrameDiffs[i])
                              >= ValueCount(FrameDiffs, FrameDiffs[j])
                    /\ \A k \in 1..(i - 1) :
                          \E j \in 1..Len(FrameDiffs) :
                              ValueCount(FrameDiffs, FrameDiffs[k])
                                  < ValueCount(FrameDiffs, FrameDiffs[j])
    IN  FrameDiffs[first]

\* C20 as stated: the __default delta of the ordering column is the most
\* frequent difference between consecutive rows, the first-encountered one
\* when several are as frequent; it is 1 for [0, 1, 2, 3, 10, 11, 12].
C20_DefaultDeltaFirstMode ==
    DeltaReturned
        => /\ ts_output.deltas["__default"]["t"] = FirstMostFrequent
           /\ ts_input.df = ExampleFrame
                 => ts_output.deltas["__default"]["t"] = 1

\* C20 as amended: the __default delta of the ordering column is a most
\* frequent difference between consecutive rows (a mode, not the mean),
\* any of them when several are as frequent; it is 1 for
\* [0, 1, 2, 3, 10, 11, 12].
C20_DefaultDeltaIsAMode ==
    DeltaReturned
        => /\ \E i \in 1..Len(FrameDiffs) :
                 /\ ts_output.deltas["__default"]["t"] = FrameDiffs[i]
                 /\ \A j \in 1..Len(FrameDiffs) :
                       ValueCount(FrameDiffs, FrameDiffs[i])
                           >= ValueCount(FrameDiffs, FrameDiffs[j])
           /\ ts_input.df = ExampleFrame
                 => ts_output.deltas["__default"]["t"] = 1

\* C20 witness: the series [0, 1, 2, 3, 10, 11, 12] gave the delta 1.
C20_Witness ==
    /\ DeltaReturned
    /\ OrderSeries(ts_input.df) = ExampleSeries
    /\ ts_output.deltas["__default"]["t"] = 1

(***************************************************************************)
(* Properties of get_ts_residuals, checked under SpecResiduals.            *)
(***************************************************************************)
ResidualsReturned == ts_output.op = "get_ts_residuals"

\* C21: get_ts_residuals raises, and does not return an empty residual list
\* with an undefined scale factor, when the target has fewer than m + 1
\* rows.
C21_ShortTargetRaises ==
    (ResidualsReturned /\ Len(ts_input.target) < ts_input.m + 1)
        => ts_output.error # ErrNone

RECURSIVE SumOfAbsDiffs(_, _, _)
SumOfAbsDiffs(target, m, i) ==
    IF i + m > Len(target)
    THEN 0
    ELSE Abs(target[i + m] - target[i]) + SumOfAbsDiffs(target, m, i + 1)

\* C22: for a target of n > m rows get_ts_residuals returns exactly n - m
\* residuals, residual i being |target[i+m] - target[i]|, and a scale factor
\* equal to their arithmetic mean; for [1,3,2,6] with m = 1 the residuals
\* are [2,1,4] and the scale factor is 7/3.
C22_ResidualsAndScale ==
    LET target == ts_input.target
        m == ts_input.m
        n == Len(target)
        out == ts_output
    IN  (ResidualsReturned /\ n > m) =>
            /\ out.error = ErrNone
            /\ Len(out.residuals) = n - m
            /\ \A i \in 1..(n - m) :
                  out.residuals[i] =
                      [k |-> "rat", n |-> Abs(target[i + m] - target[i]), d |-> 1]
            /\ out.scale_factor.k = "rat"
            /\ out.scale_factor.n * (n - m)
                   = out.scale_factor.d * SumOfAbsDiffs(target, m, 1)
            /\ (target = <<1, 3, 2, 6>> /\ m = 1) =>
                  /\ [i \in 1..3 |-> out.residuals[i].n] = <<2, 1, 4>>
                  /\ out.scale_factor = [k |-> "rat", n |-> 7, d |-> 3]

C22_Witness ==
    /\ ResidualsReturned
    /\ ts_input = [target |-> <<1, 3, 2, 6>>, m |-> 1]
    /\ ts_output.scale_factor = [k |-> "rat", n |-> 7, d |-> 3]

(***************************************************************************)
(* Properties of BestOf's context, checked under SpecContext.              *)
(***************************************************************************)
\* the group combinations of the analysis, '__default' aside
StoredGroups ==
    LET gc == init_args.ts_analysis.group_combinations
    IN  [g \in 1..(Len(gc) - 1) |-> gc[g + 1]]

\* the rows of the validation data whose grouping columns all match group
MatchingRows(group) ==
    {r \in 1..Len(init_args.data) :
        \A k \in 1..Len(init_args.ts_analysis.group_by) :
            init_args.data[r][init_args.ts_analysis.group_by[k]] = group[k]}

IsLastMatch(row, group) ==
    /\ row.idx \in MatchingRows(group)
    /\ \A r \in MatchingRows(group) : r <= row.idx

\* C23: for a 'tsarray' target the stored context holds, for every group
\* combination other than __default, exactly one row, the last row of the
\* validation data whose grouping columns all match the combination, for
\* one grouping column and for several.
C23_LastRowPerGroup ==
    (phase = "ready" /\ init_args.dtype = "tsarray") =>
        /\ Len(context.rows) = Len(StoredGroups)
        /\ \A g \in 1..Len(StoredGroups) :
              IsLastMatch(context.rows[g], StoredGroups[g])

\* the rows store_context stored when the instance was built
RowsAtConstruction == StoreContext(init_args).context.rows

\* C24: for a 'tsarray' target, after any number of get_context calls the
\* returned context has the rows stored at construction, each stamped with
\* __mdb_make_predictions = False and __lw_preprocessed = True; for any
\* other target type get_context returns an empty context and stamps
\* nothing.
C24_GetContextIdempotent ==
    LET returned == last_get_context.returned IN
    last_get_context.calls >= 1 =>
        IF init_args.dtype = "tsarray"
        THEN /\ returned.rows = RowsAtConstruction
             /\ returned.flags = <<<<"__mdb_make_predictions", FALSE>>,
                                   <<"__lw_preprocessed", TRUE>>>>
        ELSE /\ returned.rows = <<>>
             /\ returned.flags = <<>>

C24_Witness ==
    /\ last_get_context.calls >= 2
    /\ init_args.dtype = "tsarray"
    /\ Len(last_get_context.returned.rows) >= 1

(***************************************************************************)
(* The target round trip, checked under SpecCodec.                         *)
(***************************************************************************)
\* the last call decoded, with decode_log false, what an encode call of
\* the same float target encoder returned, under the group information
\* that encode call was given
SameGroupRoundTrip ==
    /\ TargetCall("decode")
    /\ last_op.before._type = "float"
    /\ ~last_op.before.positive_domain
    /\ last_op.source.encoded
    /\ last_op.extra.group_info = last_op.source.extra_data
    /\ ~DecodeLog(last_op.before, last_op.extra.decode_log)

\* C25: a prepared float target encoder with a positive resolved mean and
\* positive_domain off decodes, with decode_log false, what encode produced
\* for a number x under the same group information back to x, whether the
\* row's group is known, novel or absent.  (The mean encode and decode
\* resolve for a row is the prepared mean, with any group information.)
C25_TargetRoundTrip ==
    (SameGroupRoundTrip /\ FPositive(last_op.before._abs_mean))
        => /\ last_op.error = ErrNone
           /\ Len(last_op.output) = Len(last_op.source.data)
           /\ \A i \in 1..Len(last_op.output) :
                 last_op.source.data[i].k = "num"
                     => last_op.output[i] = ToFloat(last_op.source.data[i])

\* a round trip of two numbers, one in a group with its own normalizer and
\* one in a group without
C25_Witness ==
    /\ SameGroupRoundTrip
    /\ FPositive(last_op.before._abs_mean)
    /\ last_op.before.normalizers = TrainedNormalizers
    /\ last_op.source.data = <<Number(3), Number(-2)>>
    /\ last_op.source.extra_data = GroupInfo(<<<<"A", "Z">>>>)
    /\ last_op.output = <<ToFloat(Number(3)), ToFloat(Number(-2))>>

(***************************************************************************)
(* Construction, checked under Spec.                                       *)
(***************************************************************************)
\* C26: during construction each mixer is invoked exactly once, in list
\* order, and an exception raised by a mixer during the evaluation aborts
\* construction whether the mixer is stable or not: no failover, no
\* ranking, and the mixers after it are not evaluated.
C26_ConstructionAbortsOnRaise ==
    phase # "new" =>
        /\ Len(init_invoked) <= Len(mixers)
        /\ \A k \in 1..Len(init_invoked) : init_invoked[k] = k - 1
        /\ IF init_error.kind = "MixerError"
           THEN /\ phase = "init_failed"
                /\ indexes_by_accuracy = <<>>
                /\ Len(init_invoked) = init_error.by + 1
                /\ Len(score_list) = init_error.by
           ELSE /\ Len(init_invoked) = Len(mixers)
                /\ Len(score_list) = Len(mixers)

\* an unstable mixer raised during construction, with a mixer after it
C26_Witness ==
    /\ phase = "init_failed"
    /\ init_error.kind = "MixerError"
    /\ ~mixers[init_error.by + 1].stable
    /\ init_error.by >= 1
    /\ init_error.by + 1 < Len(mixers)

=============================================================================
